---- MODULE Spec2Model ----
\* A model of the snafu runtime library (src/src/lib.rs): the Context pair, the
\* ResultExt combinators, the ErrorCompat backtrace accessor and the rendering
\* of a Backtrace (impl Display for Backtrace and the Symbol*Display helpers).
EXTENDS Integers, Sequences, FiniteSets, TLC

VARIABLES
    input,        \* the Result a combinator is called on (self, taken by value)
    op,           \* the combinator that consumed it, "none" before the call
    output,       \* the Result the combinator returned, None before the call
    evaluated,    \* how many times the context expression has been evaluated
    conversions,  \* how many times From<Context<E, C>>::from has run
    arg,          \* the context argument of the call: a selector or a closure
    target,       \* E2, the error type an eager combinator converts into
    accessed,     \* what ErrorCompat::backtrace returned, NotAccessed before
    frames,       \* the frames of the Backtrace being displayed
    sink,         \* the lines the Formatter has accepted so far
    fmtResult,    \* what Display::fmt returned, "none" before the call
    fmtWidth,     \* the local `width` of Display::fmt, 0 before the call
    frameCount,   \* a frames.len() handed to the width computation alone
    width         \* the width computed for frameCount, 0 before the computation

resultVars == <<input, op, output, evaluated, conversions, arg, target, accessed>>
traceVars == <<frames, sink, fmtResult, fmtWidth>>
widthVars == <<frameCount, width>>
vars == <<input, op, output, evaluated, conversions, arg, target, accessed,
          frames, sink, fmtResult, fmtWidth, frameCount, width>>

\* ---------------------------------------------------------------------------
\* Option and Result
\* ---------------------------------------------------------------------------

None == <<>>
Some(x) == <<x>>

Ok(t) == [arm |-> "Ok", val |-> t]
Err(e) == [arm |-> "Err", val |-> e]

\* ---------------------------------------------------------------------------
\* Bounds of the ResultExt model
\* ---------------------------------------------------------------------------

MaxValue == 3
MaxContext == 3

\* T: the success values.
Values == 1..MaxValue
\* E: the underlying errors.
Errors == {"io", "parse", "api"}
\* C: the context selectors, here a selector with one field user_id.
Contexts == {[user_id |-> i] : i \in 1..MaxContext}
\* F: FnOnce() -> C. A closure is what it captures; calling it builds the selector.
Closures == {[captured |-> i] : i \in 1..MaxContext}
\* E2: the final error types, one whose variant has a Backtrace field and one
\* whose variant has none.
ErrorTypes == {"Traced", "Plain"}

\* context(): the body of the closure passed to with_context.
Call(f) == [user_id |-> f.captured]

\* ---------------------------------------------------------------------------
\* Context and the ResultExt combinators
\* ---------------------------------------------------------------------------

\* struct Context<E, C> { error, context }
Context(error, ctx) == [error |-> error, context |-> ctx]

\* Result::map_err as the combinators use it: the closure runs on the error
\* arm only, and the success arm is passed through. mapped is what the closure
\* makes of self's error; it is read on the error arm alone.
map_err(self, mapped) == IF self.arm = "Err" THEN Err(mapped) ELSE Ok(self.val)

\* How many times map_err runs its closure.
map_err_calls(self) == IF self.arm = "Err" THEN 1 ELSE 0

context_first_selector(self, ctx) == map_err(self, Context(self.val, [user_id |-> 1]))

context_on_both_arms(self, ctx) == Err(Context(self.val, ctx))

\* fn context<C>(self, context: C) -> Result<T, Context<E, C>>
context(self, ctx) == map_err(self, Context(self.val, ctx))

\* fn with_context<F, C>(self, context: F) -> Result<T, Context<E, C>>
with_context(self, f) == map_err(self, Context(self.val, Call(f)))

\* context and eager_context take `context: C` by value: the caller has
\* evaluated the expression once before the call, whatever the arm.
context_evaluations(self) == 1

with_context_evaluations_eager(self) == 1

\* The closure of with_context calls context() once, inside map_err's closure.
with_context_evaluations(self) == map_err_calls(self) * 1

\* The backtrace a final error with a Backtrace field captures when it is built.
CapturedTrace == "captured"

\* impl From<Context<E, C>> for E2, as the derive macro generates it: the
\* variant holds the underlying error as its source, each selector field
\* converted by Into, and a backtrace captured now if it has such a field.
From(ty, pair) ==
    [type |-> ty,
     source |-> pair.error,
     user_id |-> pair.context.user_id,
     trace |-> IF ty = "Traced" THEN Some(CapturedTrace) ELSE None]

eager_context_unconverted(self, ctx, ty) == context(self, ctx)

\* fn eager_context<C, E2>(self, context: C) -> Result<T, E2>
eager_context(self, ctx, ty) ==
    map_err(context(self, ctx), From(ty, context(self, ctx).val))

\* fn with_eager_context<F, C, E2>(self, context: F) -> Result<T, E2>
with_eager_context(self, f, ty) ==
    map_err(with_context(self, f), From(ty, with_context(self, f).val))

\* Into::into runs inside the map_err of the eager combinators, on what
\* context / with_context returned.
eager_conversions(self) == map_err_calls(self)

\* ---------------------------------------------------------------------------
\* ErrorCompat
\* ---------------------------------------------------------------------------

\* Nothing has called the accessor yet.
NotAccessed == <<>>

backtrace_default_present(error) == Some(CapturedTrace)

\* The provided method of the trait: fn backtrace(&self) -> Option<&Backtrace> { None }
backtrace_default(error) == None

\* Whether the ErrorCompat impl of the error's type overrides backtrace: the
\* derive macro does so for a type whose variant has a Backtrace field.
OverridesBacktrace(ty) == ty = "Traced"

\* The overriding method the derive macro generates: the variant's field.
backtrace_override(error) == error.trace

\* ErrorCompat::backtrace(&error), dispatched on the error's impl.
backtrace(error) ==
    IF OverridesBacktrace(error.type) THEN backtrace_override(error)
    ELSE backtrace_default(error)

\* ---------------------------------------------------------------------------
\* Text
\* ---------------------------------------------------------------------------

\* A string is the sequence of its characters.
Digit == <<"0", "1", "2", "3", "4", "5", "6", "7", "8", "9">>

\* The decimal text of a number, as {} writes an integer.
RECURSIVE Decimal(_)
Decimal(n) == IF n < 10 THEN <<Digit[n + 1]>> ELSE Decimal(n \div 10) \o <<Digit[(n % 10) + 1]>>

RECURSIVE Spaces(_)
Spaces(k) == IF k <= 0 THEN <<>> ELSE <<" ">> \o Spaces(k - 1)

\* {index:width$} with an integer: right-aligned in at least width columns.
pad_index(index, w) == Spaces(w - Len(Decimal(index))) \o Decimal(index)

\* {index:width$} with index = "": width columns of fill.
pad_blank(w) == Spaces(w)

\* ---------------------------------------------------------------------------
\* Backtrace: the bounds and the backtraces displayed
\* ---------------------------------------------------------------------------

MaxFrames == 11
MaxSymbols == 2
MaxSinkLines == 2

\* backtrace::BacktraceSymbol: name(), filename() and lineno() are Options.
SymbolNames == {None, Some(<<"r", "u", "n">>)}
SymbolFiles == {None, Some(<<"a", ".", "r", "s">>)}
SymbolLines == {None, Some(42)}
Symbols == [name : SymbolNames, filename : SymbolFiles, lineno : SymbolLines]

\* backtrace::BacktraceFrame::symbols(): zero or more symbols.
Frames == UNION {[1..k -> Symbols] : k \in 0..MaxSymbols}

\* The frame the other frames of a displayed backtrace repeat: one with no
\* symbol, or one with a fully resolved symbol.
ResolvedSymbol ==
    [name |-> Some(<<"m", "a", "i", "n">>), filename |-> Some(<<"m", ".", "r", "s">>),
     lineno |-> Some(7)]
RepeatedFrames == {<<>>, <<ResolvedSymbol>>}

\* Backtrace::new(): the frames of the calling thread. The backtraces covered
\* are those of 0..MaxFrames frames in which one frame, the p-th, is any of
\* Frames and the others repeat one of RepeatedFrames.
Backtrace(n, p, f, g) == [i \in 1..n |-> IF i = p THEN f ELSE g]

\* The sink behind the Formatter: one that takes every line, or one that
\* fails from its (lines + 1)-th writeln! on.
Sinks == {[bounded |-> FALSE, lines |-> 0]} \cup
         {[bounded |-> TRUE, lines |-> k] : k \in 0..MaxSinkLines}

\* ---------------------------------------------------------------------------
\* The width of the index column
\* ---------------------------------------------------------------------------

\* f32::log10 followed by floor, for an integer x >= 1 below 2^24 (which
\* `as f32` converts exactly): Log10Reaches[k] is the least such x whose
\* log10 is at least k in f32. The f32 nearest to log10(10^k - 1) is below k
\* for k <= 6; for k = 7 the spacing of f32 below 7 is 2^-21, and
\* log10(9999995) = 7 - 2.17e-7 is nearer to 7 than to 7 - 2^-21.
Log10Reaches == <<10, 100, 1000, 10000, 100000, 1000000, 9999995>>
log10_floor(x) == Cardinality({k \in 1..Len(Log10Reaches) : x >= Log10Reaches[k]})

\* `as usize` of floor(log10(0.0)) = -inf: the cast saturates at 0. With no
\* frame, no writeln! reads the width.
NegInfAsUsize == 0

index_width_without_one(len) == IF len = 0 THEN NegInfAsUsize ELSE log10_floor(len)

\* let width = (frames.len() as f32).log10().floor() as usize + 1;
index_width(len) == (IF len = 0 THEN NegInfAsUsize ELSE log10_floor(len)) + 1

\* ---------------------------------------------------------------------------
\* SymbolDisplay, SymbolNameDisplay, SymbolLocationDisplay
\* ---------------------------------------------------------------------------

Unknown == <<"<", "u", "n", "k", "n", "o", "w", "n", ">">>

name_empty_when_unknown(symbol) == IF symbol.name # None THEN symbol.name[1] ELSE <<>>

\* impl Display for SymbolNameDisplay
name(symbol) == IF symbol.name # None THEN symbol.name[1] ELSE Unknown

\* SymbolDisplay::location: self.0.filename().map(..)
location(symbol) == IF symbol.filename # None THEN Some(symbol) ELSE None

\* impl Display for SymbolLocationDisplay
location_text(symbol) ==
    symbol.filename[1] \o
    (IF symbol.lineno # None THEN <<":">> \o Decimal(symbol.lineno[1]) ELSE <<>>)

\* ---------------------------------------------------------------------------
\* impl Display for Backtrace
\* ---------------------------------------------------------------------------

\* writeln!(f, "{index:width$} {text}"): one line, without its "\n".
line(field, text) == field \o <<" ">> \o text

\* The writeln! of a symbol's name and, if it has a location, of the location.
symbol_lines(field, symbol, w) ==
    <<line(field, name(symbol))>> \o
    (IF location(symbol) # None
        THEN <<line(pad_blank(w), location_text(location(symbol)[1]))>>
        ELSE <<>>)

\* for symbol in symbols { .. }: the symbols after the first.
RECURSIVE rest_lines(_, _)
rest_lines(symbols, w) ==
    IF symbols = <<>> THEN <<>>
    ELSE symbol_lines(pad_blank(w), Head(symbols), w) \o rest_lines(Tail(symbols), w)

frame_lines_placeholder(index, frame, w) ==
    IF frame = <<>> THEN <<line(pad_index(index, w), Unknown)>>
    ELSE symbol_lines(pad_index(index, w), Head(frame), w) \o rest_lines(Tail(frame), w)

\* The body of the loop over the frames: if let Some(symbol) = symbols.next() { .. }
frame_lines(index, frame, w) ==
    IF frame = <<>> THEN <<>>
    ELSE symbol_lines(pad_index(index, w), Head(frame), w) \o rest_lines(Tail(frame), w)

RECURSIVE lines_from_counting_shown(_, _, _)
lines_from_counting_shown(fs, i, w) ==
    IF i > Len(fs) THEN <<>>
    ELSE frame_lines(Cardinality({j \in 1..(i - 1) : fs[j] # <<>>}), fs[i], w) \o
         lines_from_counting_shown(fs, i + 1, w)

\* for (index, frame) in frames.iter().enumerate(): the lines of the frames
\* from position i (one-based) on; the index written is i - 1.
RECURSIVE lines_from(_, _, _)
lines_from(fs, i, w) ==
    IF i > Len(fs) THEN <<>>
    ELSE frame_lines(i - 1, fs[i], w) \o lines_from(fs, i + 1, w)

\* The writeln! calls of fmt, in order.
fmt_lines(fs) == lines_from(fs, 1, index_width(Len(fs)))

\* `?` on each writeln!: the first failing call ends fmt with its error.
\* Of the lines ls fmt is to write, those the sink s has taken when fmt
\* returns, and what fmt returns.
Accepted(s, ls) == IF s.bounded /\ Len(ls) > s.lines THEN SubSeq(ls, 1, s.lines) ELSE ls
fmt(ls, s) == IF s.bounded /\ Len(ls) > s.lines THEN "Err" ELSE "Ok"

\* ---------------------------------------------------------------------------
\* The frame counts the width computation is run on alone
\* ---------------------------------------------------------------------------

MaxSmallCount == 30
MaxOffset == 5

RECURSIVE Pow10(_)
Pow10(k) == IF k = 0 THEN 1 ELSE 10 * Pow10(k - 1)

FrameCounts ==
    (0..MaxSmallCount) \cup
    {Pow10(k) + d : k \in 2..Len(Log10Reaches), d \in (0 - MaxOffset)..MaxOffset}

\* ---------------------------------------------------------------------------
\* Initial states
\* ---------------------------------------------------------------------------

NoArg == "no argument"
NoTarget == "no target"

ResultInit ==
    /\ \/ \E t \in Values : input = Ok(t)
       \/ \E e \in Errors : input = Err(e)
    /\ op = "none"
    /\ output = None
    /\ evaluated = 0
    /\ conversions = 0
    /\ arg = NoArg
    /\ target = NoTarget
    /\ accessed = NotAccessed

ResultIdle ==
    /\ input = Ok(1)
    /\ op = "none"
    /\ output = None
    /\ evaluated = 0
    /\ conversions = 0
    /\ arg = NoArg
    /\ target = NoTarget
    /\ accessed = NotAccessed

TraceInit ==
    /\ \/ frames = <<>>
       \/ \E n \in 1..MaxFrames : \E p \in 1..n : \E f \in Frames, g \in RepeatedFrames :
             frames = Backtrace(n, p, f, g)
    /\ sink = <<>>
    /\ fmtResult = "none"
    /\ fmtWidth = 0

TraceIdle ==
    /\ frames = <<>>
    /\ sink = <<>>
    /\ fmtResult = "none"
    /\ fmtWidth = 0

WidthInit ==
    /\ frameCount \in FrameCounts
    /\ width = 0

WidthIdle ==
    /\ frameCount = 0
    /\ width = 0

\* ---------------------------------------------------------------------------
\* Actions
\* ---------------------------------------------------------------------------

\* input.context(ctx)
CallContext ==
    /\ op = "none"
    /\ \E ctx \in Contexts :
        /\ arg' = ctx
        /\ output' = Some(context(input, ctx))
    /\ op' = "context"
    /\ evaluated' = context_evaluations(input)
    /\ conversions' = 0
    /\ UNCHANGED <<input, target, accessed>>
    /\ UNCHANGED <<traceVars, widthVars>>

\* input.with_context(f)
CallWithContext ==
    /\ op = "none"
    /\ \E f \in Closures :
        /\ arg' = f
        /\ output' = Some(with_context(input, f))
    /\ op' = "with_context"
    /\ evaluated' = with_context_evaluations(input)
    /\ conversions' = 0
    /\ UNCHANGED <<input, target, accessed>>
    /\ UNCHANGED <<traceVars, widthVars>>

\* input.eager_context(ctx), with the result type fixing E2
CallEagerContext ==
    /\ op = "none"
    /\ \E ctx \in Contexts, ty \in ErrorTypes :
        /\ arg' = ctx
        /\ target' = ty
        /\ output' = Some(eager_context(input, ctx, ty))
        /\ conversions' = eager_conversions(context(input, ctx))
    /\ op' = "eager_context"
    /\ evaluated' = context_evaluations(input)
    /\ UNCHANGED <<input, accessed>>
    /\ UNCHANGED <<traceVars, widthVars>>

\* input.with_eager_context(f), with the result type fixing E2
CallWithEagerContext ==
    /\ op = "none"
    /\ \E f \in Closures, ty \in ErrorTypes :
        /\ arg' = f
        /\ target' = ty
        /\ output' = Some(with_eager_context(input, f, ty))
        /\ conversions' = eager_conversions(with_context(input, f))
    /\ op' = "with_eager_context"
    /\ evaluated' = with_context_evaluations(input)
    /\ UNCHANGED <<input, accessed>>
    /\ UNCHANGED <<traceVars, widthVars>>

\* ErrorCompat::backtrace(&error) on the final error an eager combinator returned
CallBacktrace ==
    /\ op \in {"eager_context", "with_eager_context"}
    /\ output[1].arm = "Err"
    /\ accessed = NotAccessed
    /\ accessed' = Some(backtrace(output[1].val))
    /\ UNCHANGED <<input, op, output, evaluated, conversions, arg, target>>
    /\ UNCHANGED <<traceVars, widthVars>>

\* write!(sink, "{}", backtrace): Display::fmt on a Formatter over the sink
Fmt ==
    /\ fmtResult = "none"
    /\ LET ls == fmt_lines(frames) IN
         \E s \in Sinks :
            /\ sink' = Accepted(s, ls)
            /\ fmtResult' = fmt(ls, s)
    /\ fmtWidth' = index_width(Len(frames))
    /\ UNCHANGED frames
    /\ UNCHANGED <<resultVars, widthVars>>

\* The first statement of fmt on a backtrace of frameCount frames
ComputeWidth ==
    /\ width = 0
    /\ width' = index_width(frameCount)
    /\ UNCHANGED frameCount
    /\ UNCHANGED <<resultVars, traceVars>>

\* ---------------------------------------------------------------------------
\* Specifications
\* ---------------------------------------------------------------------------

\* The combinators and the accessor.
Init == ResultInit /\ TraceIdle /\ WidthIdle
Next ==
    \/ CallContext
    \/ CallWithContext
    \/ CallEagerContext
    \/ CallWithEagerContext
    \/ CallBacktrace
Spec == Init /\ [][Next]_vars

\* The display of a backtrace.
InitBacktrace == ResultIdle /\ TraceInit /\ WidthIdle
NextBacktrace == Fmt
SpecBacktrace == InitBacktrace /\ [][NextBacktrace]_vars

\* The width computation on frame counts up to 10^7 + MaxOffset.
InitWidth == ResultIdle /\ TraceIdle /\ WidthInit
NextWidth == ComputeWidth
SpecWidth == InitWidth /\ [][NextWidth]_vars

\* ---------------------------------------------------------------------------
\* The combinators: properties
\* ---------------------------------------------------------------------------

\* C1: called on Err(e), context(ctx) returns Err(Context{error: e, context: ctx})
\* and with_context(make_ctx) returns Err(Context{error: e, context: c}) with c
\* what make_ctx returned; the result is never in the success arm.
C1_ErrorArmWrapped ==
    (op \in {"context", "with_context"} /\ input.arm = "Err") =>
        /\ output # None
        /\ output[1].arm = "Err"
        /\ output[1].val.error = input.val
        /\ output[1].val.context =
              (IF op = "context" THEN arg ELSE [user_id |-> arg.captured])
        /\ DOMAIN output[1].val = {"error", "context"}

C1_Witness ==
    /\ op = "with_context"
    /\ input = Err("parse")
    /\ arg = [captured |-> 2]
    /\ output # None

\* C2: called on Ok(v), each of the four combinators returns Ok(v); every
\* call returns, and its result is in the arm of its input.
C2_SuccessArmPreserved ==
    (op # "none") =>
        /\ output # None
        /\ output[1].arm = input.arm
        /\ (input.arm = "Ok" => output[1].val = input.val)

C2_Witness ==
    /\ op = "with_eager_context"
    /\ input = Ok(2)
    /\ output = Some(Ok(2))

\* C3: with_context and with_eager_context run the context-producing function
\* zero times on Ok and exactly once on Err; context and eager_context get a
\* context evaluated once by the caller, whatever the arm.
C3_LazyEvaluation ==
    /\ (op \in {"with_context", "with_eager_context"} =>
            evaluated = (IF input.arm = "Ok" THEN 0 ELSE 1))
    /\ (op \in {"context", "eager_context"} => evaluated = 1)

C3_Witness ==
    /\ op = "with_eager_context"
    /\ input.arm = "Ok"
    /\ evaluated = 0

\* C4: eager_context(ctx) returns what context(ctx) returns with the
\* conversion From<Context<E, C>> applied to the error arm, and
\* with_eager_context(make_ctx) likewise for with_context(make_ctx); the
\* conversion runs once on Err and never on Ok.
C4_EagerIsContextThenConversion ==
    (op \in {"eager_context", "with_eager_context"}) =>
        LET ctx == IF op = "eager_context" THEN arg ELSE [user_id |-> arg.captured]
            pair == [error |-> input.val, context |-> ctx]
        IN  /\ output # None
            /\ output[1].arm = input.arm
            /\ (input.arm = "Ok" => output[1].val = input.val /\ conversions = 0)
            /\ (input.arm = "Err" =>
                    /\ DOMAIN output[1].val = DOMAIN From(target, pair)
                    /\ output[1].val = From(target, pair)
                    /\ conversions = 1)

C4_Witness ==
    /\ op = "eager_context"
    /\ input = Err("io")
    /\ conversions = 1
    /\ output[1].val.source = "io"

\* C7: the accessor returns None for every error whose impl does not override
\* backtrace (the provided method), and a present value comes only from an
\* impl that overrides it.
C7_DefaultBacktraceIsNone ==
    (accessed # NotAccessed) =>
        /\ (~OverridesBacktrace(target) => accessed = Some(None))
        /\ (accessed[1] # None => OverridesBacktrace(target))

C7_Witness ==
    /\ accessed = Some(None)
    /\ target = "Plain"
    /\ output[1].arm = "Err"

\* ---------------------------------------------------------------------------
\* The index width: properties
\* ---------------------------------------------------------------------------

\* The number of decimal digits of n: floor(log10(n)) + 1 for n >= 1.
RECURSIVE DigitCount(_)
DigitCount(n) == IF n < 10 THEN 1 ELSE 1 + DigitCount(n \div 10)

\* C5: for a backtrace of n >= 1 frames the width of the index column is
\* floor(log10(n)) + 1.
C5_WidthIsDigitCount ==
    (width # 0 /\ frameCount >= 1) => width = DigitCount(frameCount)

\* The width is never below the digits of the last index, frameCount - 1.
WidthCoversLastIndex ==
    (width # 0 /\ frameCount >= 1) => DigitCount(frameCount - 1) <= width

\* ---------------------------------------------------------------------------
\* The display of a backtrace: properties
\* ---------------------------------------------------------------------------

\* The lines a frame is to take: one per symbol, one more per file name.
FrameLineCount(frame) ==
    Len(frame) + Cardinality({j \in 1..Len(frame) : frame[j].filename # None})

\* The lines due before symbol j of frame i (both one-based).
RECURSIVE LinesBeforeFrame(_)
LinesBeforeFrame(i) ==
    IF i <= 1 THEN 0 ELSE LinesBeforeFrame(i - 1) + FrameLineCount(frames[i - 1])
LinesBefore(i, j) ==
    LinesBeforeFrame(i) + (j - 1) +
    Cardinality({k \in 1..(j - 1) : frames[i][k].filename # None})
TotalLines == LinesBeforeFrame(Len(frames) + 1)

\* The index field and the text of a line, split at the width of fmt.
Field(l) == SubSeq(l, 1, fmtWidth)
Text(l) == SubSeq(l, fmtWidth + 2, Len(l))
IsBlank(field) == \A k \in 1..Len(field) : field[k] = " "
\* The field holds the number i, right-aligned.
HoldsIndex(field, i) ==
    LET d == Decimal(i)
        fill == Len(field) - Len(d)
    IN  /\ fill >= 0
        /\ \A k \in 1..Len(field) :
              field[k] = (IF k <= fill THEN " " ELSE d[k - fill])
\* The line is the name line of the symbol / its location line.
NameText(symbol) ==
    IF symbol.name = None THEN <<"<", "u", "n", "k", "n", "o", "w", "n", ">">>
    ELSE symbol.name[1]
IsLocationOf(l, symbol) ==
    /\ symbol.filename # None
    /\ Len(Text(l)) >= Len(symbol.filename[1])
    /\ SubSeq(Text(l), 1, Len(symbol.filename[1])) = symbol.filename[1]

AllFramesEmpty == \A i \in 1..Len(frames) : frames[i] = <<>>

\* C6: a frame with no symbol contributes no line, wherever it is; a backtrace
\* whose frames all have no symbol, or that has no frame, renders as the
\* empty string and fmt returns Ok.
C6_EmptyFramesRenderNothing ==
    (fmtResult # "none") =>
        /\ Len(sink) <= TotalLines
        /\ \A i \in 1..Len(frames) :
              frames[i] = <<>> =>
                  \A k \in 1..Len(sink) : ~HoldsIndex(Field(sink[k]), i - 1)
        /\ (AllFramesEmpty => sink = <<>> /\ fmtResult = "Ok")

C6_Witness ==
    /\ fmtResult = "Ok"
    /\ Len(frames) = 3
    /\ frames[1] # <<>>
    /\ frames[2] = <<>>
    /\ frames[3] # <<>>
    /\ Len(sink) = 4

C6_WitnessAllEmpty ==
    /\ fmtResult = "Ok"
    /\ Len(frames) = 2
    /\ AllFramesEmpty
    /\ sink = <<>>

\* C8: the frames are written in order and, within a frame, its symbols in
\* order: one name line per symbol, followed by one location line if and only
\* if the symbol has a file name. The name line of the first symbol carries
\* the frame's zero-based position among all the frames; every other line of
\* the frame has a blank index field of the same width.
C8_LinesInOrder ==
    (fmtResult # "none") =>
        /\ Len(sink) <= TotalLines
        /\ (fmtResult = "Ok" => Len(sink) = TotalLines)
        /\ \A i \in 1..Len(frames) : \A j \in 1..Len(frames[i]) :
              LET symbol == frames[i][j]
                  at == LinesBefore(i, j) + 1
              IN  /\ (at <= Len(sink) =>
                        /\ Text(sink[at]) = NameText(symbol)
                        /\ Len(Field(sink[at])) = fmtWidth
                        /\ (IF j = 1 THEN HoldsIndex(Field(sink[at]), i - 1)
                                     ELSE IsBlank(Field(sink[at]))))
                  /\ ((symbol.filename # None /\ at + 1 <= Len(sink)) =>
                        /\ IsLocationOf(sink[at + 1], symbol)
                        /\ Len(Field(sink[at + 1])) = fmtWidth
                        /\ IsBlank(Field(sink[at + 1])))

C8_Witness ==
    /\ fmtResult = "Ok"
    /\ Len(frames) = 4
    /\ frames[1] = <<>>
    /\ Len(frames[3]) = 2
    /\ frames[3][1].filename # None
    /\ frames[3][2].filename = None
    /\ frames[4] = <<>>
    /\ Len(sink) = 3

C10_SymbolText ==
    (fmtResult = "Ok") =>
        /\ Len(sink) = TotalLines
        /\ \A i \in 1..Len(frames) : \A j \in 1..Len(frames[i]) :
              LET symbol == frames[i][j]
                  at == LinesBefore(i, j) + 1
              IN  /\ (symbol.name # None => Text(sink[at]) = symbol.name[1])
                  /\ (symbol.name = None =>
                        Text(sink[at]) = <<"<", "u", "n", "k", "n", "o", "w", "n", ">">>)
                  /\ ((symbol.filename # None /\ symbol.lineno # None) =>
                        Text(sink[at + 1]) =
                            symbol.filename[1] \o <<":">> \o Decimal(symbol.lineno[1]))
                  /\ ((symbol.filename # None /\ symbol.lineno = None) =>
                        Text(sink[at + 1]) = symbol.filename[1])

C10_Witness ==
    /\ fmtResult = "Ok"
    /\ Len(frames) = 1
    /\ Len(frames[1]) = 2
    /\ frames[1][1] = [name |-> None, filename |-> None, lineno |-> Some(42)]
    /\ frames[1][2].name # None
    /\ frames[1][2].filename # None
    /\ frames[1][2].lineno = None
    /\ Len(sink) = 3

====
